---- MODULE Spec2Model ----
(***************************************************************************)
(* Verification model of the AutoStock composite technical-signal scoring  *)
(* engine (ScoringEngine / SignalAggregator and the signal producers that  *)
(* feed them) as documented by the repository's verify-analysis rules and  *)
(* consumed by the dashboard frontend, and of the frontend's session       *)
(* state: authenticated requests and AuthProvider, the hybrid watchlist    *)
(* library, the useWebSocket hook, and the pipeline page's SSE             *)
(* subscription with its polling fallback.                                 *)
(*                                                                         *)
(* Number representation (fixed point, exact integer arithmetic):          *)
(*   weights        thousandths      (1.0  = 1000)                         *)
(*   strengths      hundredths       (1.0  = 100)                          *)
(*   contributions  weight*strength  (1.0  = 100000)                       *)
(*   scaled score   tenths of a point (80.0 = 800)                         *)
(*   confidence     whole percent                                          *)
(*   prices         whole currency units; ratios in hundredths             *)
(***************************************************************************)
EXTENDS Integers, Sequences, FiniteSets, TLC

VARIABLES
    SIGNAL_WEIGHTS,   \* ScoringEngine.SIGNAL_WEIGHTS as written in scoring_engine.py
    DEFAULT_WEIGHTS,  \* SignalAggregator.DEFAULT_WEIGHTS as written in signal_aggregator.py
    engine,           \* "stopped" | "running" | "config_error"
    edits,            \* number of edits made to the weight tables so far
    call,             \* the last function call made: [fn, ...arguments..., out]
    accessToken,      \* lib/api.ts _accessToken: 0 is null, n > 0 a token string
    user,             \* AuthProvider user state: "null" or a user object
    storage,          \* localStorage["autostock-watchlist"]: [present, text]
    events,           \* 'watchlist-updated' events dispatched by the running operation
    task,             \* the running frontend operation and where it is suspended
    requests,         \* HTTP requests the running operation has sent, in order
    mounted,          \* useWebSocket: the hook's effect is active
    effects,          \* useWebSocket: number of times the effect has run
    reconnectInterval,\* useWebSocket: options.reconnectInterval of the current render
    isConnected,      \* useWebSocket: isConnected state
    sockets,          \* every WebSocket the hook has constructed, in order
    wsRef,            \* useWebSocket: wsRef.current (0 is null, else index in sockets)
    reconnectTimer,   \* useWebSocket: reconnectTimer.current (0 is undefined)
    timers,           \* pending setTimeout(connect, delay) timers
    pageMounted,      \* PipelinePage is mounted
    connected,        \* PipelinePage connected state, as last rendered
    effectConnected,  \* the value of connected the SSE effect in force closed over
    sources,          \* every EventSource subscribePipelineStream has constructed
    subscription,     \* the EventSource the effect in force will close (0: none)
    pipelineState,    \* PipelinePage state (the PipelineState shown)
    inflight,         \* fetchPipelineStatus() requests of poll ticks not yet answered
    lastTick          \* what the latest poll tick saw and did

engineVars == <<SIGNAL_WEIGHTS, DEFAULT_WEIGHTS, engine, edits, call>>

authVars == <<accessToken, user, storage, events, task, requests>>

wsVars == <<mounted, effects, reconnectInterval, isConnected, sockets, wsRef,
            reconnectTimer, timers>>

pageVars == <<pageMounted, connected, effectConnected, sources, subscription,
              pipelineState, inflight, lastTick>>

frontVars == <<authVars, wsVars, pageVars>>

vars == <<engineVars, frontVars>>

---------------------------------------------------------------------------
(* Generic helpers *)

Max(a, b) == IF a >= b THEN a ELSE b

Min(a, b) == IF a <= b THEN a ELSE b

Abs(x) == IF x < 0 THEN -x ELSE x

RECURSIVE SumSeq(_)
SumSeq(s) == IF s = <<>> THEN 0 ELSE Head(s) + SumSeq(Tail(s))

\* Python's sum(d.values()) / sum over a mapping, in the order given.
RECURSIVE SumOver(_, _)
SumOver(f, order) ==
    IF order = <<>> THEN 0
    ELSE (IF Head(order) \in DOMAIN f THEN f[Head(order)] ELSE 0)
         + SumOver(f, Tail(order))

\* Round-half-up of num/den for num >= 0, den > 0.
RoundDiv(num, den) == (2 * num + den) \div (2 * den)

---------------------------------------------------------------------------
(* Bounds of the model *)

\* How many edits of the weight tables are explored before a start-up.
MaxEdits == 2

\* How many named confidence adjustments one compute() call may carry.
MaxAdjustments == 3

---------------------------------------------------------------------------
(* Weight tables *)

\* 1.0 in weight units (thousandths).
WeightOne == 1000

\* The 0.001 tolerance of the sum check, in weight units.
SumTolerance == 1

\* The six technical dimensions of ScoringEngine, in table order.
EngineDimOrder ==
    <<"candlestick", "chart_pattern", "support_resistance", "volume", "trend", "rsi">>

EngineDims == {EngineDimOrder[i] : i \in 1..Len(EngineDimOrder)}

\* The five dimensions of SignalAggregator: four technical plus news sentiment.
AggDimOrder ==
    <<"candlestick", "chart_pattern", "support_resistance", "volume", "news_sentiment">>

AggDims == {AggDimOrder[i] : i \in 1..Len(AggDimOrder)}

\* The shipped ScoringEngine table: 0.2/0.2/0.2/0.15/0.15/0.1.
InitialSignalWeights ==
    [d \in EngineDims |->
        CASE d = "candlestick"        -> 200
          [] d = "chart_pattern"      -> 200
          [] d = "support_resistance" -> 200
          [] d = "volume"             -> 150
          [] d = "trend"              -> 150
          [] d = "rsi"                -> 100]

\* The shipped SignalAggregator table (its own scheme, also summing to 1.0).
InitialDefaultWeights ==
    [d \in AggDims |->
        CASE d = "candlestick"        -> 200
          [] d = "chart_pattern"      -> 200
          [] d = "support_resistance" -> 200
          [] d = "volume"             -> 150
          [] d = "news_sentiment"     -> 250]

\* Values an edit of a table entry may write (weight units). A negative
\* value is written as a negated literal in the Python source.
WeightValues == {-150, 0, 100, 150, 200, 201, 202, 350}

\* ast.Constant test of the verification script: a numeric literal is a
\* Constant node; a negated literal such as -0.15 parses as
\* UnaryOp(USub, Constant) and is therefore not a Constant.
IsAstConstant(v) == v >= 0

\* vals = [elt.value for elt in <dict>.values if isinstance(elt, ast.Constant)]
\* total = sum(vals)
ConstantTotal(table, order) ==
    SumOver([d \in {x \in DOMAIN table : IsAstConstant(table[x])} |-> table[d]], order)

\* if abs(total - 1.0) > 0.001: FAIL (exit 1) else PASS (exit 0)
SumCheck(total) == IF Abs(total - WeightOne) > SumTolerance THEN "FAIL" ELSE "PASS"

\* verify-analysis Step 1: ScoringEngine.SIGNAL_WEIGHTS
VerifyStep1(table) == SumCheck(ConstantTotal(table, EngineDimOrder))

\* verify-analysis Step 2: SignalAggregator.DEFAULT_WEIGHTS
VerifyStep2(table) == SumCheck(ConstantTotal(table, AggDimOrder))

\* The true sum of a table, sum(weights.values()).
TableSum(table, order) == SumOver(table, order)

---------------------------------------------------------------------------
(* ScoringEngine: composite score *)

\* 1.0 in strength units (hundredths): the magnitude cap of a strength.
StrengthOne == 100

\* Mutant: the strength is weighted as supplied, without clamping.
UnclampedStrength(s) == s

\* clamp(strength, -1, 1)
ClampStrength(s) == Max(-StrengthOne, Min(StrengthOne, s))

\* contribution = weight * clamp(strength, -1, 1)
Contribution(w, s) == w * ClampStrength(s)

\* Mutant: the weights are renormalised over the dimensions present.
RenormalizedWeights(W, signals) ==
    LET present == SumSeq([i \in 1..Len(EngineDimOrder) |->
                             IF EngineDimOrder[i] \in DOMAIN signals
                             THEN W[EngineDimOrder[i]] ELSE 0])
    IN IF present <= 0 THEN W
       ELSE [d \in DOMAIN W |-> (W[d] * WeightOne) \div present]

\* Weights applied to the dimensions of one call: the table as it is, whatever
\* dimensions the input carries (no renormalisation over present dimensions).
EffectiveWeights(W, signals) == W

\* signal_breakdown: one {weight, strength, contribution} entry per dimension
\* of the weight table; a dimension absent from the input contributes 0.
SignalBreakdown(W, signals) ==
    LET EW == EffectiveWeights(W, signals)
    IN [d \in DOMAIN W |->
          IF d \in DOMAIN signals
          THEN [weight       |-> EW[d],
                strength     |-> ClampStrength(signals[d]),
                contribution |-> Contribution(EW[d], signals[d])]
          ELSE [weight |-> EW[d], strength |-> 0, contribution |-> 0]]

\* Mutant: total_score is rounded to two decimals after summing.
RoundedTotalScore(breakdown, order) ==
    LET total == SumOver([d \in DOMAIN breakdown |-> breakdown[d].contribution], order)
    IN IF total >= 0 THEN 1000 * RoundDiv(total, 1000) ELSE -1000 * RoundDiv(-total, 1000)

\* total_score = sum(contributions)
TotalScore(breakdown, order) ==
    SumOver([d \in DOMAIN breakdown |-> breakdown[d].contribution], order)

\* BUY / SELL cut-offs of ScoringEngine (+0.15 / -0.15), in contribution units.
BUY_THRESHOLD == 15000

SELL_THRESHOLD == -15000

\* Mutant: the thresholds are inclusive (>= / <=).
ClassifySignalInclusive(total) ==
    IF total >= BUY_THRESHOLD THEN "BUY"
    ELSE IF total <= SELL_THRESHOLD THEN "SELL"
    ELSE "HOLD"

\* total_score > +0.15 -> BUY, < -0.15 -> SELL, else HOLD
ClassifySignal(total) ==
    IF total > BUY_THRESHOLD THEN "BUY"
    ELSE IF total < SELL_THRESHOLD THEN "SELL"
    ELSE "HOLD"

---------------------------------------------------------------------------
(* ScoringEngine: grade *)

\* The 0-100 scaled score (tenths of a point) the grade is bucketed from:
\* the magnitude of total_score as a percentage.
ScaledScore(total) == Abs(total) \div 100

\* Mutant: the A+ boundary is exclusive (score > 80).
AssignGradeExclusiveTop(score) ==
    IF score > 800 THEN "A+"
    ELSE IF score >= 700 THEN "A"
    ELSE IF score >= 600 THEN "B+"
    ELSE IF score >= 500 THEN "B"
    ELSE IF score >= 400 THEN "C"
    ELSE IF score >= 250 THEN "D"
    ELSE "F"

\* _assign_grade: A+ >= 80, A >= 70, B+ >= 60, B >= 50, C >= 40, D >= 25, else F;
\* checked top-down, first match returns.
_assign_grade(score) ==
    IF score >= 800 THEN "A+"
    ELSE IF score >= 700 THEN "A"
    ELSE IF score >= 600 THEN "B+"
    ELSE IF score >= 500 THEN "B"
    ELSE IF score >= 400 THEN "C"
    ELSE IF score >= 250 THEN "D"
    ELSE "F"

---------------------------------------------------------------------------
(* ScoringEngine: confidence *)

\* Mutant: the clamp is to [0, 100] instead of [5, 95].
ClampToPercent(x) == Max(0, Min(100, x))

\* max(5, min(95, x))
ClampConfidence(x) == Max(5, Min(95, x))

\* _enhanced_confidence: base, then every named adjustment's signed delta,
\* then the clamp; the result keeps base, final and the adjustments applied.
_enhanced_confidence(base, adjustments) ==
    LET deltas == [i \in 1..Len(adjustments) |-> adjustments[i].delta]
    IN [base        |-> base,
        final       |-> ClampConfidence(base + SumSeq(deltas)),
        adjustments |-> adjustments]

---------------------------------------------------------------------------
(* ScoringEngine: price levels *)

\* Consensus of the method estimates: their average.
Consensus(methods) == RoundDiv(SumSeq(methods), Len(methods))

\* Discount of the entry price below the current price, in percent.
DiscountPct(entry, current) ==
    IF entry < current THEN RoundDiv((current - entry) * 100, current) ELSE 0

\* Mutant: the division is not guarded; a zero denominator yields infinity.
RiskRewardUnguarded(entry, target, stop) ==
    IF entry = stop
    THEN [kind |-> "inf"]
    ELSE [kind |-> "number", value |-> RoundDiv(100 * Abs(target - entry), Abs(entry - stop))]

\* risk_reward_ratio = |target - entry| / |entry - stop_loss|, rounded to two
\* decimals, with entry as base; null when entry == stop_loss.
RiskReward(entry, target, stop) ==
    IF entry = stop
    THEN [kind |-> "null"]
    ELSE [kind |-> "number", value |-> RoundDiv(100 * Abs(target - entry), Abs(entry - stop))]

---------------------------------------------------------------------------
(* ScoringEngine.compute *)

\* Mutant: the return value lacks the details key.
RequiredKeysWithoutDetails ==
    {"signal", "grade", "confidence", "current_price", "entry_price", "target",
     "stop_loss", "risk_reward_ratio", "summary", "indicators", "signal_breakdown",
     "total_score"}

\* The required keys of compute()'s return value.
RequiredKeys ==
    {"signal", "grade", "confidence", "current_price", "entry_price", "target",
     "stop_loss", "risk_reward_ratio", "summary", "indicators", "signal_breakdown",
     "total_score", "details"}

\* The full CompositeResult of one scoring run.
CompositeResult(W, order, signals, ctx) ==
    LET breakdown == SignalBreakdown(W, signals)
        total     == TotalScore(breakdown, order)
        entry     == Consensus(ctx.entry_methods)
        target    == Consensus(ctx.target_methods)
        stop      == Consensus(ctx.stop_methods)
        sig       == ClassifySignal(total)
        grade     == _assign_grade(ScaledScore(total))
    IN [signal            |-> sig,
        grade             |-> grade,
        confidence        |-> _enhanced_confidence(ctx.base_confidence, ctx.adjustments),
        current_price     |-> ctx.current_price,
        entry_price       |-> [consensus    |-> entry,
                               methods      |-> ctx.entry_methods,
                               discount_pct |-> DiscountPct(entry, ctx.current_price)],
        target            |-> [consensus |-> target, methods |-> ctx.target_methods],
        stop_loss         |-> [final |-> stop, methods |-> ctx.stop_methods],
        risk_reward_ratio |-> RiskReward(entry, target, stop),
        summary           |-> <<sig, grade>>,
        indicators        |-> ctx.indicators,
        signal_breakdown  |-> breakdown,
        total_score       |-> total,
        details           |-> signals]

\* compute(signals, price_context): raises InputValidationError when there is
\* no current price to derive price levels from; otherwise returns the result.
compute(W, order, signals, ctx) ==
    IF ctx.current_price <= 0
    THEN [raised |-> "InputValidationError", value |-> [k \in {} |-> 0]]
    ELSE LET full == CompositeResult(W, order, signals, ctx)
         IN [raised |-> "", value |-> [k \in RequiredKeys |-> full[k]]]

---------------------------------------------------------------------------
(* SignalAggregator.aggregate *)

\* THRESHOLDS of SignalAggregator (its own, distinct from ScoringEngine's).
AGG_THRESHOLD == 20000

\* aggregate(signals) -> {decision, total_strength}
aggregate(W, order, signals) ==
    LET total == TotalScore(SignalBreakdown(W, signals), order)
    IN [decision       |-> IF total > AGG_THRESHOLD THEN "BUY"
                           ELSE IF total < -AGG_THRESHOLD THEN "SELL"
                           ELSE "HOLD",
        total_strength |-> total]

---------------------------------------------------------------------------
(* Signal producers *)

\* Mutant: the bullish side is capped at 0.8 (the asymmetric-cap defect).
SupportResistanceBullishCap08(raw) ==
    IF raw > 0 THEN Min(80, raw)
    ELSE IF raw < 0 THEN -Min(StrengthOne, -raw)
    ELSE 0

\* support_resistance strength: min(1.0, raw) on the bullish (BUY) side and
\* -min(1.0, raw) on the bearish (SELL) side; raw > 0 is a bullish reading of
\* that magnitude, raw < 0 a bearish one.
SupportResistanceStrength(raw) ==
    IF raw > 0 THEN Min(StrengthOne, raw)
    ELSE IF raw < 0 THEN -Min(StrengthOne, -raw)
    ELSE 0

\* volume_analysis with the sign-flipping factor the rules forbid:
\* `score *= -0.5` on divergence.
VolumeScoreSignFlip(score, divergence) ==
    IF divergence THEN score * (-5) ELSE score * 10

\* volume_analysis, price_volume_divergence step: `score *= 0.5` on divergence,
\* the score untouched otherwise.  score is in hundredths, the result in
\* thousandths, so that halving is exact.
VolumeScore(score, divergence) ==
    IF divergence THEN score * 5 ELSE score * 10

---------------------------------------------------------------------------
(* Frontend consumers of a score result `sc`.  A read is the path of keys  *)
(* the consumer dereferences: sc.confidence.final is <<"confidence",       *)
(* "final">>.                                                              *)

\* SearchPage auto-save effect: signal, grade, confidence?.final,
\* current_price, total_score.
AutoSaveReads ==
    {<<"signal">>, <<"grade">>, <<"confidence", "final">>,
     <<"current_price">>, <<"total_score">>}

\* An add-to-watchlist handler that reads the stop-loss level under the name
\* the entry and target objects use, and the confidence under a flat key.
AddToWatchlistReadsFlat ==
    {<<"signal">>, <<"grade">>, <<"final_confidence">>, <<"current_price">>,
     <<"entry_price", "consensus">>, <<"target", "consensus">>,
     <<"stop_loss", "consensus">>, <<"risk_reward_ratio">>}

\* SearchPage add-to-watchlist handler.
AddToWatchlistReads ==
    {<<"signal">>, <<"grade">>, <<"confidence", "final">>, <<"current_price">>,
     <<"entry_price", "consensus">>, <<"target", "consensus">>,
     <<"stop_loss", "final">>, <<"risk_reward_ratio">>}

\* RecommendationsPage handleSave.
RecommendationSaveReads ==
    {<<"signal">>, <<"grade">>, <<"confidence", "final">>,
     <<"current_price">>, <<"total_score">>}

Consumers == {"auto_save", "add_to_watchlist", "recommendation_save"}

ReadsOf(consumer) ==
    CASE consumer = "auto_save"           -> AutoSaveReads
      [] consumer = "add_to_watchlist"    -> AddToWatchlistReads
      [] consumer = "recommendation_save" -> RecommendationSaveReads

\* Keys of a score result whose value is itself an object with named fields.
ObjectKeys == {"confidence", "entry_price", "target", "stop_loss"}

\* JavaScript property access along a path: TRUE iff every key of the path is
\* an own property of the object reached so far (otherwise the read yields
\* undefined, or throws when the parent itself is undefined).
Resolves(sc, path) ==
    /\ path[1] \in DOMAIN sc
    /\ Len(path) > 1 =>
          /\ path[1] \in ObjectKeys
          /\ path[2] \in DOMAIN sc[path[1]]

\* The value a resolved read yields.
ReadValue(sc, path) ==
    IF Len(path) = 1 THEN sc[path[1]] ELSE sc[path[1]][path[2]]

\* What a consumer makes of the result: the reads that found nothing, and
\* the confidence it passes on (`?? 0` when the read is undefined).
Consume(consumer, sc) ==
    [missing    |-> {p \in ReadsOf(consumer) : ~Resolves(sc, p)},
     confidence |-> IF Resolves(sc, <<"confidence", "final">>)
                    THEN ReadValue(sc, <<"confidence", "final">>) ELSE 0]

---------------------------------------------------------------------------
(* Inputs explored *)

\* Largest strength magnitude a producer may hand over before any clamping.
MaxRawStrength == 150

StrengthValues == {-MaxRawStrength, -StrengthOne, 0, 37, MaxRawStrength}

\* Every signal set: any subset of the dimensions, any strength for each.
SignalInputs == UNION {[D -> StrengthValues] : D \in SUBSET EngineDims}

\* The end-to-end scenario's signals (rsi absent).
SampleSignals ==
    [d \in EngineDims \ {"rsi"} |->
        CASE d = "candlestick"        -> 40
          [] d = "chart_pattern"      -> 30
          [] d = "support_resistance" -> 20
          [] d = "volume"             -> 10
          [] d = "trend"              -> 50]

NoSignals == [d \in {} |-> 0]

SampleContext ==
    [current_price   |-> 100,
     entry_methods   |-> <<98, 100>>,
     target_methods  |-> <<110, 120>>,
     stop_methods    |-> <<90, 94>>,
     base_confidence |-> 60,
     adjustments     |-> <<>>,
     indicators      |-> "indicators"]

AdjustmentChoices ==
    {[factor |-> "trend_alignment",     delta |-> 10],
     [factor |-> "trend_alignment",     delta |-> -15],
     [factor |-> "volume_confirmation", delta |-> 5],
     [factor |-> "pattern_count",       delta |-> 1000],
     [factor |-> "pattern_count",       delta |-> -1000]}

AdjustmentLists == UNION {[1..n -> AdjustmentChoices] : n \in 0..MaxAdjustments}

BaseConfidences == {0, 5, 50, 95, 100}

ConfidenceContexts ==
    {[SampleContext EXCEPT !.base_confidence = b, !.adjustments = a] :
        b \in BaseConfidences, a \in AdjustmentLists}

PriceContexts ==
    {[SampleContext EXCEPT !.current_price = c, !.entry_methods = <<e1, e2>>,
                           !.target_methods = <<t1, t2>>, !.stop_methods = <<s1, s2>>] :
        c \in {0, 100}, e1 \in {90, 100}, e2 \in {90, 100},
        t1 \in {100, 110, 125}, t2 \in {100, 110, 125},
        s1 \in {80, 90, 100}, s2 \in {80, 90, 100}}

Pending == [raised |-> "pending", value |-> NoSignals]

ComputeCall(signals, ctx) ==
    [fn |-> "compute", signals |-> signals, ctx |-> ctx, done |-> FALSE, out |-> Pending]

GradeCall(score) == [fn |-> "_assign_grade", score |-> score, done |-> FALSE, out |-> ""]

SupportResistanceCall(raw) ==
    [fn |-> "support_resistance", raw |-> raw, done |-> FALSE, out |-> 0]

VolumeCall(score, divergence) ==
    [fn |-> "volume_analysis", score |-> score, divergence |-> divergence,
     done |-> FALSE, out |-> 0]

ConsumeCall(consumer, signals, ctx) ==
    [fn |-> "consume", consumer |-> consumer, signals |-> signals, ctx |-> ctx,
     done |-> FALSE, out |-> Pending, used |-> [missing |-> {}, confidence |-> 0]]

Idle == [fn |-> "idle", done |-> TRUE]

---------------------------------------------------------------------------
(* Frontend: authenticated requests (lib/api.ts), AuthProvider and the     *)
(* hybrid watchlist (lib/watchlist.ts).  An operation runs as a task that  *)
(* is suspended at each await on the network; the step that receives a     *)
(* response runs the code up to the next await.                            *)

\* Distinct access tokens the backend may issue.
MaxTokens == 2

Tokens == 1..MaxTokens

\* Response.ok
Ok(status) == status >= 200 /\ status <= 299

Statuses == {200, 401, 500}

\* What an awaited fetch() yields: a response, or a rejection (network down).
Responses ==
    {[kind |-> "response", status |-> st, token |-> 0] : st \in Statuses}
        \cup {[kind |-> "network_error", status |-> 0, token |-> 0]}

\* What awaiting POST /api/auth/refresh and its body yields.
RefreshOutcomes ==
    {[kind |-> "token", status |-> 200, token |-> t] : t \in Tokens}
        \cup {[kind |-> "no_token", status |-> 200, token |-> 0],
              [kind |-> "not_ok", status |-> 401, token |-> 0],
              [kind |-> "throws", status |-> 0, token |-> 0]}

NoItem == [ticker |-> "", note |-> ""]

\* One fetch(): auth is the token of the Authorization header, 0 without one.
Request(url, method, auth, body) ==
    [url |-> url, method |-> method, auth |-> auth, body |-> body]

NoResult == [state |-> "pending", error |-> "", status |-> 0]

Resolved == [state |-> "resolved", error |-> "", status |-> 0]

Rejected(error, status) == [state |-> "rejected", error |-> error, status |-> status]

NewTask(op) ==
    [op |-> op, arg |-> NoItem, phase |-> "", pc |-> "start", url |-> "", method |-> "",
     body |-> NoItem, callAt |-> 0, responses |-> <<>>, result |-> NoResult,
     items |-> <<>>, i |-> 0, source |-> "", list |-> <<>>, settled |-> <<>>]

NoTask == [NewTask("none") EXCEPT !.pc = "idle"]

EmptyStorage == [present |-> FALSE, items |-> <<>>]

\* The frontend before any page is loaded.
FrontInit ==
    /\ accessToken = 0
    /\ user = "null"
    /\ storage = EmptyStorage
    /\ events = 0
    /\ task = NoTask
    /\ requests = <<>>
    /\ mounted = FALSE
    /\ effects = 0
    /\ reconnectInterval = 0
    /\ isConnected = FALSE
    /\ sockets = <<>>
    /\ wsRef = 0
    /\ reconnectTimer = 0
    /\ timers = {}
    /\ pageMounted = FALSE
    /\ connected = FALSE
    /\ effectConnected = FALSE
    /\ sources = <<>>
    /\ subscription = 0
    /\ pipelineState = [status |-> "idle", steps |-> "DEFAULT_STEPS"]
    /\ inflight = 0
    /\ lastTick = [ticked |-> FALSE, connected |-> FALSE, captured |-> FALSE,
                   issued |-> FALSE]

\* No operation is suspended.
Quiescent == task.pc = "idle"

\* fetchWithAuth that asks for a new token on any response that is not OK,
\* whether or not it holds one.
RefreshOnAnyFailure(status, token) == ~Ok(status)

\* fetchWithAuth: `res.status === 401 && _accessToken`
ShouldRefresh(status, token) == status = 401 /\ token # 0

\* fetchWithAuth: `if (!res.ok) throw new Error(`API Error: ${res.status}`)`,
\* a rejected fetch() rejecting the call itself.
FetchOutcome(r) ==
    IF r.kind = "network_error" THEN Rejected("TypeError", 0)
    ELSE IF ~Ok(r.status) THEN Rejected("API Error", r.status)
    ELSE Resolved

\* fetchWithAuth up to its first await: build the headers, send the request.
StartCall(t, reqs, url, method, body, token) ==
    /\ task' = [t EXCEPT !.pc = "fetch1", !.url = url, !.method = method,
                         !.body = body, !.callAt = Len(reqs), !.responses = <<>>]
    /\ requests' = Append(reqs, Request(url, method, token, body))

\* The operation is over.
Finish(t, result) == task' = [t EXCEPT !.pc = "idle", !.result = result]

\* Watchlist items: a ticker and one more field, which a page may leave
\* undefined (`target_price: sc.target.consensus` of a result without it).
Tickers == {"AAPL", "MSFT", "005930"}

Items == {[ticker |-> tk, note |-> n] : tk \in Tickers, n \in {"a", "undefined"}}

\* JSON.parse(JSON.stringify(item)): a property whose value is undefined is
\* not written, so it is absent from what is read back.
JsonRoundTrip(item) ==
    IF "note" \in DOMAIN item /\ item.note = "undefined"
    THEN [ticker |-> item.ticker] ELSE item

\* list.filter((w) => w.ticker !== ticker)
RECURSIVE FilterOut(_, _)
FilterOut(list, ticker) ==
    IF list = <<>> THEN <<>>
    ELSE IF Head(list).ticker = ticker THEN FilterOut(Tail(list), ticker)
    ELSE <<Head(list)>> \o FilterOut(Tail(list), ticker)

\* addToWatchlist that puts the item in front of the list as it is.
AddWithoutFilter(list, item) == <<item>> \o list

\* addToWatchlist, local branch: filter out the ticker, unshift the item.
LocalAdd(list, item) == <<item>> \o FilterOut(list, item.ticker)

\* removeFromWatchlist, local branch.
LocalRemove(list, ticker) == FilterOut(list, ticker)

\* getLocalWatchlist: the parsed list, [] when the key is absent.
getLocalWatchlist == IF storage.present THEN storage.items ELSE <<>>

\* localStorage.setItem(STORAGE_KEY, JSON.stringify(items))
Stored(list) ==
    [present |-> TRUE, items |-> [k \in 1..Len(list) |-> JsonRoundTrip(list[k])]]

\* A watchlist library that asks AuthProvider's user instead of the token.
isAuthenticatedUser == user # "null"

\* isLoggedIn: `!!getAccessToken()`
isLoggedIn == accessToken # 0

\* migrateLocalToServer that removes the local list whatever the posts did.
KeepOnFailureNever(before, failed) == EmptyStorage

\* migrateLocalToServer's `catch {}`: the local list is kept when a post failed.
AfterMigration(before, failed) == IF failed THEN before ELSE EmptyStorage

\* migrateLocalToServer after k items have been posted: post the next one,
\* or remove the local list once every item has been posted.
MigrateFrom(t, k, reqs) ==
    IF k < Len(t.items)
    THEN /\ StartCall([t EXCEPT !.phase = "migrate", !.i = k + 1], reqs,
                      "/api/watchlist", "POST", t.items[k + 1], accessToken)
         /\ UNCHANGED storage
    ELSE /\ Finish(t, Resolved)
         /\ storage' = IF k > 0 THEN AfterMigration(storage, FALSE) ELSE storage
         /\ requests' = reqs

\* The code that runs when the fetchWithAuth call a task awaits has settled.
\* accessToken is left to the step that settles the call.
Continue(received, outcome) ==
    LET t == [received EXCEPT !.settled = Append(@, outcome)]
    IN CASE task.op = "api" ->
              /\ Finish(t, outcome)
              /\ UNCHANGED <<user, storage, events, requests>>
         [] task.op = "mount" ->
              \* fetchMe throwing is swallowed by `catch {}`
              /\ user' = IF outcome.state = "resolved" THEN "user" ELSE user
              /\ Finish(t, Resolved)
              /\ UNCHANGED <<storage, events, requests>>
         [] task.op = "setToken" /\ task.phase = "fetchMe" ->
              IF outcome.state = "resolved"
              THEN /\ user' = "user"
                   /\ MigrateFrom([t EXCEPT !.items = getLocalWatchlist], 0, requests)
                   /\ UNCHANGED events
              ELSE /\ user' = "null"
                   /\ Finish(t, Resolved)
                   /\ UNCHANGED <<storage, events, requests>>
         [] task.op \in {"setToken", "migrate"} /\ task.phase = "migrate" ->
              /\ IF outcome.state = "resolved"
                 THEN MigrateFrom(t, task.i, requests)
                 ELSE /\ Finish(t, Resolved)
                      /\ storage' = AfterMigration(storage, TRUE)
                      /\ UNCHANGED requests
              /\ UNCHANGED <<user, events>>
         [] task.op = "getWatchlist" ->
              \* `catch { return getLocalWatchlist(); }`
              /\ task' = [t EXCEPT !.pc = "idle", !.result = Resolved,
                                   !.source = IF outcome.state = "resolved"
                                              THEN "server" ELSE "local",
                                   !.list = IF outcome.state = "resolved"
                                            THEN <<>> ELSE getLocalWatchlist]
              /\ UNCHANGED <<user, storage, events, requests>>
         [] task.op \in {"addToWatchlist", "removeFromWatchlist"} ->
              /\ Finish(t, outcome)
              /\ UNCHANGED <<user, storage, events, requests>>

\* fetchWithAuth receives the response to its first request.
FwaFirstResponse ==
    /\ task.pc = "fetch1"
    /\ \E r \in Responses :
         LET t == [task EXCEPT !.responses = Append(@, r)]
         IN IF r.kind = "response" /\ ShouldRefresh(r.status, accessToken)
            THEN /\ task' = [t EXCEPT !.pc = "refresh"]
                 /\ requests' = Append(requests,
                                       Request("/api/auth/refresh", "POST", 0, NoItem))
                 /\ UNCHANGED <<accessToken, user, storage, events>>
            ELSE /\ Continue(t, FetchOutcome(r))
                 /\ UNCHANGED accessToken
    /\ UNCHANGED <<engineVars, wsVars, pageVars>>

\* fetchWithAuth receives the outcome of refreshAccessToken: a new token is
\* stored and the request is sent once more with it; otherwise the first
\* response stands.
FwaRefreshResponse ==
    /\ task.pc = "refresh"
    /\ \E o \in RefreshOutcomes :
         LET t == [task EXCEPT !.responses = Append(@, o)]
         IN IF o.kind = "token"
            THEN /\ accessToken' = o.token
                 /\ task' = [t EXCEPT !.pc = "fetch2"]
                 /\ requests' = Append(requests,
                                       Request(task.url, task.method, o.token, task.body))
                 /\ UNCHANGED <<user, storage, events>>
            ELSE /\ Continue(t, FetchOutcome(task.responses[1]))
                 /\ UNCHANGED accessToken
    /\ UNCHANGED <<engineVars, wsVars, pageVars>>

\* fetchWithAuth receives the response to the request it sent again.
FwaRetryResponse ==
    /\ task.pc = "fetch2"
    /\ \E r \in Responses :
         Continue([task EXCEPT !.responses = Append(@, r)], FetchOutcome(r))
    /\ UNCHANGED <<accessToken, engineVars, wsVars, pageVars>>

\* The page is loaded: module state is fresh, AuthProvider mounts and its
\* effect asks for a token with the refresh cookie.
PageLoad ==
    /\ Quiescent
    /\ accessToken' = 0
    /\ user' = "null"
    /\ task' = [NewTask("mount") EXCEPT !.pc = "mount_refresh"]
    /\ requests' = <<Request("/api/auth/refresh", "POST", 0, NoItem)>>
    /\ events' = 0
    /\ UNCHANGED <<storage, engineVars, wsVars, pageVars>>

\* AuthProvider mount effect after `await refreshAccessToken()`.
MountRefreshResponse ==
    /\ task.pc = "mount_refresh"
    /\ \E o \in RefreshOutcomes :
         IF o.kind = "token"
         THEN /\ accessToken' = o.token
              /\ StartCall([task EXCEPT !.phase = "fetchMe"], requests,
                           "/api/auth/me", "GET", NoItem, o.token)
         ELSE /\ Finish(task, Resolved)
              /\ UNCHANGED <<accessToken, requests>>
    /\ UNCHANGED <<user, storage, events, engineVars, wsVars, pageVars>>

\* AuthProvider.setToken(token), called by the OAuth callback page.
SetToken ==
    /\ Quiescent
    /\ \E token \in Tokens :
         /\ accessToken' = token
         /\ StartCall([NewTask("setToken") EXCEPT !.phase = "fetchMe"], <<>>,
                      "/api/auth/me", "GET", NoItem, token)
    /\ events' = 0
    /\ UNCHANGED <<user, storage, engineVars, wsVars, pageVars>>

\* AuthProvider.logout up to the await in logoutAPI.
Logout ==
    /\ Quiescent
    /\ task' = [NewTask("logout") EXCEPT !.pc = "logout_fetch"]
    /\ requests' = <<Request("/api/auth/logout", "POST", 0, NoItem)>>
    /\ events' = 0
    /\ UNCHANGED <<accessToken, user, storage, engineVars, wsVars, pageVars>>

\* logoutAPI after its fetch: any response clears the token and the user; a
\* rejected fetch rejects logout() before either is touched.
LogoutResponse ==
    /\ task.pc = "logout_fetch"
    /\ \E r \in Responses :
         IF r.kind = "network_error"
         THEN /\ Finish(task, Rejected("TypeError", 0))
              /\ UNCHANGED <<accessToken, user>>
         ELSE /\ accessToken' = 0
              /\ user' = "null"
              /\ Finish(task, Resolved)
    /\ UNCHANGED <<storage, events, requests, engineVars, wsVars, pageVars>>

\* Any other authenticated request of a page (fetchSavedAnalyses).
ApiCall ==
    /\ Quiescent
    /\ StartCall(NewTask("api"), <<>>, "/api/saved-analyses", "GET", NoItem, accessToken)
    /\ events' = 0
    /\ UNCHANGED <<accessToken, user, storage, engineVars, wsVars, pageVars>>

\* lib/watchlist.ts getWatchlist.
GetWatchlist ==
    /\ Quiescent
    /\ IF isLoggedIn
       THEN StartCall(NewTask("getWatchlist"), <<>>, "/api/watchlist", "GET",
                      NoItem, accessToken)
       ELSE /\ task' = [NewTask("getWatchlist") EXCEPT
                            !.pc = "idle", !.result = Resolved,
                            !.source = "local", !.list = getLocalWatchlist]
            /\ requests' = <<>>
    /\ events' = 0
    /\ UNCHANGED <<accessToken, user, storage, engineVars, wsVars, pageVars>>

\* setLocalWatchlist(list) as the last statement of an operation t.
SetLocalWatchlist(t, list) ==
    /\ storage' = Stored(list)
    /\ events' = 1
    /\ requests' = <<>>
    /\ Finish(t, Resolved)

\* lib/watchlist.ts addToWatchlist(item).
AddToWatchlist ==
    /\ Quiescent
    /\ \E item \in Items :
         LET t == [NewTask("addToWatchlist") EXCEPT !.arg = item]
         IN IF isLoggedIn
            THEN /\ StartCall(t, <<>>, "/api/watchlist", "POST", item, accessToken)
                 /\ events' = 0
                 /\ UNCHANGED storage
            ELSE SetLocalWatchlist(t, LocalAdd(getLocalWatchlist, item))
    /\ UNCHANGED <<accessToken, user, engineVars, wsVars, pageVars>>

\* lib/watchlist.ts removeFromWatchlist(ticker).
RemoveFromWatchlist ==
    /\ Quiescent
    /\ \E ticker \in Tickers :
         LET t == [NewTask("removeFromWatchlist") EXCEPT !.arg.ticker = ticker]
         IN IF isLoggedIn
            THEN /\ StartCall(t, <<>>, "/api/watchlist/" \o ticker, "DELETE",
                              NoItem, accessToken)
                 /\ events' = 0
                 /\ UNCHANGED storage
            ELSE SetLocalWatchlist(t, LocalRemove(getLocalWatchlist, ticker))
    /\ UNCHANGED <<accessToken, user, engineVars, wsVars, pageVars>>

\* The synchronous localStorage-only library: addToWatchlist(item).
SyncAddToWatchlist ==
    /\ Quiescent
    /\ \E item \in Items :
         SetLocalWatchlist([NewTask("syncAddToWatchlist") EXCEPT !.arg = item],
                           LocalAdd(getLocalWatchlist, item))
    /\ UNCHANGED <<accessToken, user, engineVars, wsVars, pageVars>>

\* The synchronous localStorage-only library: removeFromWatchlist(ticker).
SyncRemoveFromWatchlist ==
    /\ Quiescent
    /\ \E ticker \in Tickers :
         SetLocalWatchlist([NewTask("syncRemoveFromWatchlist") EXCEPT
                               !.arg.ticker = ticker],
                           LocalRemove(getLocalWatchlist, ticker))
    /\ UNCHANGED <<accessToken, user, engineVars, wsVars, pageVars>>

\* lib/watchlist.ts migrateLocalToServer called on its own.
MigrateLocalToServer ==
    /\ Quiescent
    /\ MigrateFrom([NewTask("migrate") EXCEPT !.items = getLocalWatchlist], 0, <<>>)
    /\ events' = 0
    /\ UNCHANGED <<accessToken, user, engineVars, wsVars, pageVars>>

---------------------------------------------------------------------------
(* Frontend: the useWebSocket hook (hooks/use-websocket.ts).  A socket is  *)
(* [state, gen, interval]: gen is the run of the effect whose connect      *)
(* closure constructed it, interval that closure's                         *)
(* options.reconnectInterval.  A timer is named by the socket whose        *)
(* handler (or failed construction) scheduled it.                          *)

\* WebSocket constructor calls of one hook instance.
MaxSockets == 3

\* Runs of the hook's effect (the mount, then every change of url/options).
MaxEffects == 2

DefaultReconnectInterval == 5000

\* options.reconnectInterval: 0 stands for undefined and for 0, both falsy.
IntervalChoices == {0, 3000}

\* A reconnect delay that takes the option as it is.
DelayAsGiven(interval) == interval

\* `options.reconnectInterval || 5000`
Delay(interval) == IF interval = 0 THEN DefaultReconnectInterval ELSE interval

\* Sockets on which close() still does something.
Live == {"connecting", "open"}

\* connect() of the closure (gen, interval), run on top of the given refs:
\* `new WebSocket(url)` succeeds (constructed) or throws.
Connect(gen, interval, constructed, socks, ref, timer, pending) ==
    LET id == Len(socks) + 1
    IN /\ sockets' = Append(socks, [state |-> IF constructed THEN "connecting" ELSE "failed",
                                    gen |-> gen, interval |-> interval])
       /\ IF constructed
          THEN /\ wsRef' = id
               /\ reconnectTimer' = timer
               /\ timers' = pending
          ELSE /\ wsRef' = ref
               /\ reconnectTimer' = id
               /\ timers' = pending \cup {[id |-> id, delay |-> Delay(interval)]}

\* Effect cleanup, `clearTimeout(reconnectTimer.current)`: the pending timers left.
ClearedTimers == {t \in timers : t.id # reconnectTimer}

\* Effect cleanup, `wsRef.current?.close()`: the sockets afterwards.
ClosedByCleanup ==
    IF wsRef # 0 /\ sockets[wsRef].state \in Live
    THEN [sockets EXCEPT ![wsRef].state = "closing"]
    ELSE sockets

\* The component mounts: first render, then the effect calls connect().
Mount ==
    /\ ~mounted /\ effects = 0
    /\ mounted' = TRUE
    /\ effects' = 1
    /\ \E interval \in IntervalChoices, constructed \in BOOLEAN :
         /\ reconnectInterval' = interval
         /\ Connect(1, interval, constructed, sockets, wsRef, reconnectTimer, timers)
    /\ UNCHANGED <<isConnected, engineVars, authVars, pageVars>>

\* A render with a new url or options object: connect changes, the effect's
\* cleanup runs and the effect runs again.
DepsChange ==
    /\ mounted /\ effects < MaxEffects /\ Len(sockets) < MaxSockets
    /\ effects' = effects + 1
    /\ \E interval \in IntervalChoices, constructed \in BOOLEAN :
         /\ reconnectInterval' = interval
         /\ Connect(effects + 1, interval, constructed,
                    ClosedByCleanup, wsRef, reconnectTimer, ClearedTimers)
    /\ UNCHANGED <<mounted, isConnected, engineVars, authVars, pageVars>>

\* The component unmounts: the effect's cleanup runs.
Unmount ==
    /\ mounted
    /\ mounted' = FALSE
    /\ timers' = ClearedTimers
    /\ sockets' = ClosedByCleanup
    /\ UNCHANGED <<effects, reconnectInterval, isConnected, wsRef, reconnectTimer,
                   engineVars, authVars, pageVars>>

\* ws.onopen
OnOpen ==
    /\ \E id \in 1..Len(sockets) :
         /\ sockets[id].state = "connecting"
         /\ sockets' = [sockets EXCEPT ![id].state = "open"]
    /\ isConnected' = IF mounted THEN TRUE ELSE isConnected
    /\ UNCHANGED <<mounted, effects, reconnectInterval, wsRef, reconnectTimer, timers,
                   engineVars, authVars, pageVars>>

\* ws.onerror: the handler calls ws.close().
OnError ==
    /\ \E id \in 1..Len(sockets) :
         /\ sockets[id].state \in Live
         /\ sockets' = [sockets EXCEPT ![id].state = "closing"]
    /\ UNCHANGED <<mounted, effects, reconnectInterval, isConnected, wsRef,
                   reconnectTimer, timers, engineVars, authVars, pageVars>>

\* ws.onclose of a socket that was closed by close(), by the server or by
\* the network: isConnected is cleared and connect is scheduled.
OnClose ==
    /\ \E id \in 1..Len(sockets) :
         /\ sockets[id].state \in Live \cup {"closing"}
         /\ sockets' = [sockets EXCEPT ![id].state = "closed"]
         /\ reconnectTimer' = id
         /\ timers' = timers \cup {[id |-> id, delay |-> Delay(sockets[id].interval)]}
    /\ isConnected' = IF mounted THEN FALSE ELSE isConnected
    /\ UNCHANGED <<mounted, effects, reconnectInterval, wsRef, engineVars, authVars, pageVars>>

\* A reconnect timer fires: connect() of the closure that scheduled it runs.
TimerFire ==
    /\ Len(sockets) < MaxSockets
    /\ \E t \in timers, constructed \in BOOLEAN :
         Connect(sockets[t.id].gen, sockets[t.id].interval, constructed,
                 sockets, wsRef, reconnectTimer, timers \ {t})
    /\ UNCHANGED <<mounted, effects, reconnectInterval, isConnected, engineVars, authVars, pageVars>>

---------------------------------------------------------------------------
(* Frontend: PipelinePage (app/pipeline/page.tsx) and                      *)
(* subscribePipelineStream (lib/api.ts).  React commits a state update in  *)
(* a render and runs the effects of that render afterwards, in a later     *)
(* task: between the two, the handlers and timers of the previous effect   *)
(* are still in force.                                                     *)

\* EventSource objects constructed for one mounted page.
MaxSources == 3

\* Status requests that may be awaiting their response at once.
MaxInflight == 2

\* Parsed event data and status payloads: a keepalive, a full pipeline
\* state, and one that lacks the steps.
KeepAlive == [keepalive |-> TRUE]

Payloads ==
    {KeepAlive,
     [status |-> "running", steps |-> "server"],
     [status |-> "completed"]}

\* handleEvent: `if ("keepalive" in data) return; setState(data)`
handleEvent(state, data) ==
    IF "keepalive" \in DOMAIN data THEN state ELSE data

\* setState / setConnected of a page that is no longer mounted do nothing.
SetWhileMounted(current, next) == IF pageMounted THEN next ELSE current

NewSource == [state |-> "connecting", opened |-> FALSE, closedBy |-> ""]

\* `close()` of the subscription in force: es.close().
ClosedBySubscription ==
    IF subscription # 0 /\ sources[subscription].state # "closed"
    THEN [sources EXCEPT ![subscription].state = "closed",
                         ![subscription].closedBy = "cleanup"]
    ELSE sources

\* The page mounts: first render, then the effect subscribes and starts the
\* 2 s interval, closing over connected = false.
PageMount ==
    /\ ~pageMounted /\ sources = <<>>
    /\ pageMounted' = TRUE
    /\ sources' = <<NewSource>>
    /\ subscription' = 1
    /\ effectConnected' = connected
    /\ UNCHANGED <<connected, pipelineState, inflight, lastTick,
                   engineVars, authVars, wsVars>>

\* es.onopen: onConnected(true).
EsOpen ==
    /\ \E id \in 1..Len(sources) :
         /\ sources[id].state = "connecting"
         /\ sources' = [sources EXCEPT ![id].state = "open", ![id].opened = TRUE]
    /\ connected' = SetWhileMounted(connected, TRUE)
    /\ UNCHANGED <<pageMounted, effectConnected, subscription, pipelineState,
                   inflight, lastTick, engineVars, authVars, wsVars>>

\* es.onmessage: onConnected(true), then onEvent(JSON.parse(event.data));
\* data that does not parse is ignored.
EsMessage ==
    /\ \E id \in 1..Len(sources), parses \in BOOLEAN, data \in Payloads :
         /\ sources[id].state = "open"
         /\ pipelineState' = IF parses
                             THEN SetWhileMounted(pipelineState,
                                                  handleEvent(pipelineState, data))
                             ELSE pipelineState
    /\ connected' = SetWhileMounted(connected, TRUE)
    /\ UNCHANGED <<pageMounted, effectConnected, sources, subscription,
                   inflight, lastTick, engineVars, authVars, wsVars>>

\* es.onerror while the browser reconnects (readyState CONNECTING): nothing.
EsRetry ==
    /\ \E id \in 1..Len(sources) :
         /\ sources[id].state = "open"
         /\ sources' = [sources EXCEPT ![id].state = "connecting"]
    /\ UNCHANGED <<pageMounted, connected, effectConnected, subscription,
                   pipelineState, inflight, lastTick, engineVars, authVars, wsVars>>

\* es.onerror with readyState CLOSED (the browser gave up): onConnected(false).
EsFatal ==
    /\ \E id \in 1..Len(sources) :
         /\ sources[id].state \in {"connecting", "open"}
         /\ sources' = [sources EXCEPT ![id].state = "closed", ![id].closedBy = "error"]
    /\ connected' = SetWhileMounted(connected, FALSE)
    /\ UNCHANGED <<pageMounted, effectConnected, subscription, pipelineState,
                   inflight, lastTick, engineVars, authVars, wsVars>>

\* The effects of a render in which connected changed: the cleanup of the
\* effect in force (close(), clearInterval), then the effect again.
FlushEffects ==
    /\ pageMounted /\ effectConnected # connected
    /\ Len(sources) < MaxSources
    /\ sources' = Append(ClosedBySubscription, NewSource)
    /\ subscription' = Len(sources) + 1
    /\ effectConnected' = connected
    /\ UNCHANGED <<pageMounted, connected, pipelineState, inflight, lastTick,
                   engineVars, authVars, wsVars>>

\* An interval callback that asks for the status at every tick.
PollAlways(captured) == TRUE

\* The interval callback's `if (!connected)`, on the value it closed over.
PollIssues(captured) == ~captured

\* The interval callback of the effect in force, up to its await.
PollTick ==
    /\ pageMounted
    /\ PollIssues(effectConnected) => inflight < MaxInflight
    /\ inflight' = IF PollIssues(effectConnected) THEN inflight + 1 ELSE inflight
    /\ lastTick' = [ticked |-> TRUE, connected |-> connected,
                    captured |-> effectConnected,
                    issued |-> PollIssues(effectConnected)]
    /\ UNCHANGED <<pageMounted, connected, effectConnected, sources, subscription,
                   pipelineState, engineVars, authVars, wsVars>>

\* The interval callback after `await fetchPipelineStatus()`: a rejection is
\* ignored, `res?.data` is handed to handleEvent when there is one.
PollResponse ==
    /\ inflight > 0
    /\ inflight' = inflight - 1
    /\ \E answered \in BOOLEAN, data \in Payloads :
         pipelineState' = IF answered
                          THEN SetWhileMounted(pipelineState,
                                               handleEvent(pipelineState, data))
                          ELSE pipelineState
    /\ UNCHANGED <<pageMounted, connected, effectConnected, sources, subscription,
                   lastTick, engineVars, authVars, wsVars>>

\* The page unmounts: the cleanup of the effect in force runs.
PageUnmount ==
    /\ pageMounted
    /\ pageMounted' = FALSE
    /\ sources' = ClosedBySubscription
    /\ UNCHANGED <<connected, effectConnected, subscription, pipelineState,
                   inflight, lastTick, engineVars, authVars, wsVars>>

---------------------------------------------------------------------------
(* Specification of the pure computations: one call, drawn at Init, is run *)

TablesAsShipped ==
    /\ SIGNAL_WEIGHTS = InitialSignalWeights
    /\ DEFAULT_WEIGHTS = InitialDefaultWeights
    /\ edits = 0

Init ==
    /\ TablesAsShipped
    /\ FrontInit
    /\ engine = "running"
    /\ \/ \E s \in SignalInputs : call = ComputeCall(s, SampleContext)
       \/ \E c \in ConfidenceContexts : call = ComputeCall(SampleSignals, c)
       \/ \E s \in {SampleSignals, NoSignals}, c \in PriceContexts : call = ComputeCall(s, c)
       \/ \E x \in 0..1000 : call = GradeCall(x)
       \/ \E r \in -MaxRawStrength..MaxRawStrength : call = SupportResistanceCall(r)
       \/ \E v \in -StrengthOne..StrengthOne, d \in BOOLEAN : call = VolumeCall(v, d)
       \/ \E k \in Consumers, s \in {SampleSignals, NoSignals}, c \in ConfidenceContexts :
             call = ConsumeCall(k, s, c)

DoCompute ==
    /\ call.fn = "compute" /\ ~call.done
    /\ call' = [call EXCEPT !.done = TRUE,
                            !.out = compute(SIGNAL_WEIGHTS, EngineDimOrder,
                                            call.signals, call.ctx)]
    /\ UNCHANGED <<SIGNAL_WEIGHTS, DEFAULT_WEIGHTS, engine, edits, frontVars>>

DoAssignGrade ==
    /\ call.fn = "_assign_grade" /\ ~call.done
    /\ call' = [call EXCEPT !.done = TRUE, !.out = _assign_grade(call.score)]
    /\ UNCHANGED <<SIGNAL_WEIGHTS, DEFAULT_WEIGHTS, engine, edits, frontVars>>

DoSupportResistance ==
    /\ call.fn = "support_resistance" /\ ~call.done
    /\ call' = [call EXCEPT !.done = TRUE, !.out = SupportResistanceStrength(call.raw)]
    /\ UNCHANGED <<SIGNAL_WEIGHTS, DEFAULT_WEIGHTS, engine, edits, frontVars>>

DoVolume ==
    /\ call.fn = "volume_analysis" /\ ~call.done
    /\ call' = [call EXCEPT !.done = TRUE,
                            !.out = VolumeScore(call.score, call.divergence)]
    /\ UNCHANGED <<SIGNAL_WEIGHTS, DEFAULT_WEIGHTS, engine, edits, frontVars>>

\* The score endpoint runs compute(); the page reads the result it returns
\* (a failed request gives the page nothing to read).
DoConsume ==
    /\ call.fn = "consume" /\ ~call.done
    /\ LET res == compute(SIGNAL_WEIGHTS, EngineDimOrder, call.signals, call.ctx)
       IN call' = [call EXCEPT !.done = TRUE,
                               !.out = res,
                               !.used = IF res.raised = ""
                                        THEN Consume(call.consumer, res.value)
                                        ELSE @]
    /\ UNCHANGED <<SIGNAL_WEIGHTS, DEFAULT_WEIGHTS, engine, edits, frontVars>>

Next == DoCompute \/ DoAssignGrade \/ DoSupportResistance \/ DoVolume \/ DoConsume

Spec == Init /\ [][Next]_vars

---------------------------------------------------------------------------
(* Specification of configuration and start-up: the tables are edited in   *)
(* the source, the engine is started behind the weight-sum verification,   *)
(* and a running engine serves compute() and aggregate() calls.            *)

InitLoad ==
    /\ TablesAsShipped
    /\ FrontInit
    /\ engine = "stopped"
    /\ call = Idle

EditSignalWeights ==
    /\ engine = "stopped" /\ edits < MaxEdits
    /\ \E d \in EngineDims, v \in WeightValues :
          /\ v # SIGNAL_WEIGHTS[d]
          /\ SIGNAL_WEIGHTS' = [SIGNAL_WEIGHTS EXCEPT ![d] = v]
    /\ edits' = edits + 1
    /\ UNCHANGED <<DEFAULT_WEIGHTS, engine, call, frontVars>>

EditDefaultWeights ==
    /\ engine = "stopped" /\ edits < MaxEdits
    /\ \E d \in AggDims, v \in WeightValues :
          /\ v # DEFAULT_WEIGHTS[d]
          /\ DEFAULT_WEIGHTS' = [DEFAULT_WEIGHTS EXCEPT ![d] = v]
    /\ edits' = edits + 1
    /\ UNCHANGED <<SIGNAL_WEIGHTS, engine, call, frontVars>>

\* Start-up: both verification steps run; any FAIL is a configuration error.
Startup ==
    /\ engine = "stopped"
    /\ engine' = IF VerifyStep1(SIGNAL_WEIGHTS) = "PASS" /\ VerifyStep2(DEFAULT_WEIGHTS) = "PASS"
                 THEN "running" ELSE "config_error"
    /\ UNCHANGED <<SIGNAL_WEIGHTS, DEFAULT_WEIGHTS, edits, call, frontVars>>

RunCompute ==
    /\ engine = "running"
    /\ call' = [ComputeCall(SampleSignals, SampleContext) EXCEPT
                   !.done = TRUE,
                   !.out = compute(SIGNAL_WEIGHTS, EngineDimOrder, SampleSignals, SampleContext)]
    /\ UNCHANGED <<SIGNAL_WEIGHTS, DEFAULT_WEIGHTS, engine, edits, frontVars>>

RunAggregate ==
    /\ engine = "running"
    /\ call' = [fn |-> "aggregate", signals |-> SampleSignals, done |-> TRUE,
                out |-> aggregate(DEFAULT_WEIGHTS, AggDimOrder, SampleSignals)]
    /\ UNCHANGED <<SIGNAL_WEIGHTS, DEFAULT_WEIGHTS, engine, edits, frontVars>>

\* The process is stopped (or the failed start is abandoned) for further edits.
Shutdown ==
    /\ engine \in {"running", "config_error"}
    /\ engine' = "stopped"
    /\ call' = Idle
    /\ UNCHANGED <<SIGNAL_WEIGHTS, DEFAULT_WEIGHTS, edits, frontVars>>

NextLoad ==
    \/ EditSignalWeights \/ EditDefaultWeights
    \/ Startup \/ RunCompute \/ RunAggregate \/ Shutdown

SpecLoad == InitLoad /\ [][NextLoad]_vars

---------------------------------------------------------------------------
(* Specification of the frontend session: pages are loaded, the user logs  *)
(* in and out, and the watchlist is read and edited, one operation at a    *)
(* time, with every outcome the backend and the network can produce.       *)

InitFront ==
    /\ TablesAsShipped
    /\ engine = "running"
    /\ call = Idle
    /\ FrontInit

NextFront ==
    \/ PageLoad \/ MountRefreshResponse
    \/ SetToken \/ Logout \/ LogoutResponse \/ ApiCall
    \/ FwaFirstResponse \/ FwaRefreshResponse \/ FwaRetryResponse
    \/ GetWatchlist \/ AddToWatchlist \/ RemoveFromWatchlist
    \/ SyncAddToWatchlist \/ SyncRemoveFromWatchlist
    \/ MigrateLocalToServer

SpecFront == InitFront /\ [][NextFront]_vars

---------------------------------------------------------------------------
(* Specification of one useWebSocket hook instance, and the same with the  *)
(* event loop's guarantees: a pending timer fires, a socket that is        *)
(* closing gets its close event.                                           *)

InitWs ==
    /\ TablesAsShipped
    /\ engine = "running"
    /\ call = Idle
    /\ FrontInit

NextWs ==
    \/ Mount \/ DepsChange \/ Unmount
    \/ OnOpen \/ OnError \/ OnClose \/ TimerFire

SpecWs == InitWs /\ [][NextWs]_vars

SpecWsFair == SpecWs /\ WF_vars(TimerFire) /\ WF_vars(OnClose)

---------------------------------------------------------------------------
(* Specification of one mounted PipelinePage with its SSE stream and its   *)
(* polling interval.                                                       *)

InitPage ==
    /\ TablesAsShipped
    /\ engine = "running"
    /\ call = Idle
    /\ FrontInit

NextPage ==
    \/ PageMount \/ PageUnmount \/ FlushEffects
    \/ EsOpen \/ EsMessage \/ EsRetry \/ EsFatal
    \/ PollTick \/ PollResponse

SpecPage == InitPage /\ [][NextPage]_vars

---------------------------------------------------------------------------
(* Claims *)

\* A finished compute() call that returned a result.
Computed == call.fn = "compute" /\ call.done /\ call.out.raised = ""

Result == call.out.value

\* A weight table as the contract requires it: no negative weight, and a sum
\* within 0.001 of 1.0.
ValidWeightTable(table, order) ==
    /\ \A d \in DOMAIN table : table[d] >= 0
    /\ TableSum(table, order) >= 999
    /\ TableSum(table, order) <= 1001

\* C1: each weight table has non-negative weights summing to 1.0 +- 0.001, and
\* a table violating this is rejected at start-up, so the engine never serves
\* a compute() or aggregate() call with such a table.
C1_ServesOnlyValidTables ==
    (engine = "running" \/ call.fn \in {"compute", "aggregate"}) =>
        /\ ValidWeightTable(SIGNAL_WEIGHTS, EngineDimOrder)
        /\ ValidWeightTable(DEFAULT_WEIGHTS, AggDimOrder)

\* C2: the final confidence of every compute() result is within [5, 95] and
\* equals the base plus all adjustment deltas, clamped to [5, 95] afterwards.
C2_ConfidenceClampedAfterAdjustments ==
    Computed =>
        LET conf == Result.confidence
            adj  == call.ctx.adjustments
            raw  == call.ctx.base_confidence
                    + SumSeq([i \in 1..Len(adj) |-> adj[i].delta])
        IN /\ conf.final >= 5 /\ conf.final <= 95
           /\ conf.final # 0 /\ conf.final # 100
           /\ conf.final = (IF raw < 5 THEN 5 ELSE IF raw > 95 THEN 95 ELSE raw)

\* C2 witness: adjustments totalling at least +1000% were applied and the
\* final confidence is 95.
C2_Witness ==
    /\ Computed
    /\ LET adj == call.ctx.adjustments
       IN SumSeq([i \in 1..Len(adj) |-> adj[i].delta]) >= 1000
    /\ Result.confidence.final = 95

Grades == <<"F", "D", "C", "B", "B+", "A", "A+">>

GradeRank(g) == CHOOSE i \in 1..Len(Grades) : Grades[i] = g

\* C3: _assign_grade gives every scaled score in 0..100 exactly the grade of
\* the band it lies in (boundaries inclusive: 80.0 is A+, 79.9 is A), and a
\* higher score never receives a lower grade.
C3_GradeBandsInclusiveMonotonic ==
    (call.fn = "_assign_grade" /\ call.done) =>
        LET x == call.score
            g == call.out
        IN /\ \E i \in 1..Len(Grades) : Grades[i] = g
           /\ (g = "A+") <=> (x >= 800)
           /\ (g = "A")  <=> (x >= 700 /\ x < 800)
           /\ (g = "B+") <=> (x >= 600 /\ x < 700)
           /\ (g = "B")  <=> (x >= 500 /\ x < 600)
           /\ (g = "C")  <=> (x >= 400 /\ x < 500)
           /\ (g = "D")  <=> (x >= 250 /\ x < 400)
           /\ (g = "F")  <=> (x < 250)
           /\ \A y \in 0..1000 :
                 y <= x => GradeRank(_assign_grade(y)) <= GradeRank(g)

\* C3 witness: the score 80.0 was graded A+.
C3_Witness == call.fn = "_assign_grade" /\ call.done /\ call.score = 800 /\ call.out = "A+"

\* C4: in every compute() result each signal_breakdown entry has
\* contribution = weight * strength of that entry, and the contributions sum
\* to the reported total_score.
C4_BreakdownReconciles ==
    Computed =>
        LET b == Result.signal_breakdown
        IN /\ \A d \in DOMAIN b : b[d].contribution = b[d].weight * b[d].strength
           /\ SumOver([d \in DOMAIN b |-> b[d].weight * b[d].strength], EngineDimOrder)
                 = Result.total_score

\* C4 witness: a result with at least two non-zero contributions of opposite
\* sign and a non-zero total.
C4_Witness ==
    /\ Computed
    /\ \E d1, d2 \in DOMAIN Result.signal_breakdown :
          /\ Result.signal_breakdown[d1].contribution > 0
          /\ Result.signal_breakdown[d2].contribution < 0
    /\ Result.total_score # 0

\* C5: every compute() result has exactly the 13 contract keys, also when all
\* signal dimensions are missing and the ratio is undefined.
C5_ExactlyThirteenKeys ==
    Computed =>
        /\ DOMAIN Result =
              {"signal", "grade", "confidence", "current_price", "entry_price",
               "target", "stop_loss", "risk_reward_ratio", "summary", "indicators",
               "signal_breakdown", "total_score", "details"}
        /\ Cardinality(DOMAIN Result) = 13

\* C5 witness: a degraded computation (no signal dimension present, ratio
\* null) returned a result.
C5_Witness ==
    /\ Computed
    /\ call.signals = NoSignals
    /\ Result.risk_reward_ratio.kind = "null"
    /\ "risk_reward_ratio" \in DOMAIN Result

\* C6: with a current price, compute() does not raise; entry == stop_loss
\* gives a null risk_reward_ratio (never infinity or NaN), and otherwise the
\* ratio is |target - entry| / |entry - stop_loss| (rounded to two decimals).
C6_RiskRewardGuarded ==
    (call.fn = "compute" /\ call.done /\ call.ctx.current_price > 0) =>
        /\ call.out.raised = ""
        /\ LET e   == Result.entry_price.consensus
               t   == Result.target.consensus
               sl  == Result.stop_loss.final
               rr  == Result.risk_reward_ratio
               num == 100 * (IF t >= e THEN t - e ELSE e - t)
               den == IF e >= sl THEN e - sl ELSE sl - e
           IN /\ rr.kind \in {"null", "number"}
              /\ (e = sl) <=> (rr.kind = "null")
              /\ (e # sl) =>
                    LET diff == rr.value * den - num
                    IN 2 * diff <= den /\ 2 * diff >= -den

\* C6 witness: entry equals stop_loss and the ratio is null.
C6_Witness ==
    /\ Computed
    /\ Result.entry_price.consensus = Result.stop_loss.final
    /\ Result.risk_reward_ratio = [kind |-> "null"]
    /\ call.signals = SampleSignals

\* The same signals with every absent dimension present at strength 0.
ZeroFilled(signals) ==
    [d \in EngineDims |-> IF d \in DOMAIN signals THEN signals[d] ELSE 0]

\* C7: an absent dimension contributes 0 without renormalising the others:
\* compute() does not fail, total_score equals that of the same input with the
\* absent dimensions present at strength 0, and |total_score| is at most the
\* sum of the weights of the dimensions present.
C7_MissingDimensionIsZero ==
    (call.fn = "compute" /\ call.done /\ call.ctx.current_price > 0) =>
        /\ call.out.raised = ""
        /\ Result.total_score =
              compute(SIGNAL_WEIGHTS, EngineDimOrder, ZeroFilled(call.signals),
                      call.ctx).value.total_score
        /\ Abs(Result.total_score) <=
              100 * SumOver([d \in DOMAIN call.signals |-> SIGNAL_WEIGHTS[d]], EngineDimOrder)

\* C7 witness: a call with some dimensions absent, some present, and a
\* non-zero total.
C7_Witness ==
    /\ Computed
    /\ DOMAIN call.signals # EngineDims
    /\ DOMAIN call.signals # {}
    /\ Result.total_score > 0

\* C8: signal is BUY exactly when total_score > the positive threshold, SELL
\* exactly when below the negative one, HOLD otherwise (also at a threshold);
\* the two thresholds are fixed and symmetric.
C8_SignalFromThresholds ==
    Computed =>
        LET t == Result.total_score
            g == Result.signal
        IN /\ BUY_THRESHOLD > 0 /\ SELL_THRESHOLD = -BUY_THRESHOLD
           /\ g \in {"BUY", "SELL", "HOLD"}
           /\ (g = "BUY")  <=> (t > BUY_THRESHOLD)
           /\ (g = "SELL") <=> (t < SELL_THRESHOLD)
           /\ (g = "HOLD") <=> (t >= SELL_THRESHOLD /\ t <= BUY_THRESHOLD)

\* C8 witness: a total_score exactly at the positive threshold is HOLD.
C8_Witness == Computed /\ Result.total_score = BUY_THRESHOLD /\ Result.signal = "HOLD"

\* C9: each supplied strength is clamped to [-1, 1] before weighting, so
\* |contribution_i| <= weight_i and total_score stays within [-1, 1].
C9_StrengthClampedBeforeWeighting ==
    Computed =>
        /\ \A d \in DOMAIN call.signals :
              LET sv == call.signals[d]
                  c  == IF sv > 100 THEN 100 ELSE IF sv < -100 THEN -100 ELSE sv
                  e  == Result.signal_breakdown[d]
              IN /\ e.contribution = SIGNAL_WEIGHTS[d] * c
                 /\ e.contribution <= 100 * SIGNAL_WEIGHTS[d]
                 /\ e.contribution >= -100 * SIGNAL_WEIGHTS[d]
        /\ Result.total_score <= 100000
        /\ Result.total_score >= -100000

\* C9 witness: a strength above 1.0 was supplied and contributed exactly its
\* weight.
C9_Witness ==
    /\ Computed
    /\ \E d \in DOMAIN call.signals :
          /\ call.signals[d] > 100
          /\ Result.signal_breakdown[d].contribution = 100 * SIGNAL_WEIGHTS[d]

\* C10: the support/resistance strength is capped at magnitude 1.0 on both
\* sides: min(1.0, raw) bullish, -min(1.0, raw) bearish, and the outputs for
\* +X and -X are exact negatives of each other.
C10_SupportResistanceSymmetricCap ==
    (call.fn = "support_resistance" /\ call.done) =>
        LET x == call.raw
            o == call.out
        IN /\ o <= 100 /\ o >= -100
           /\ (x > 0) => o = (IF x < 100 THEN x ELSE 100)
           /\ (x < 0) => o = -(IF -x < 100 THEN -x ELSE 100)
           /\ o = -SupportResistanceStrength(-x)

\* C10 witness: a bearish raw value beyond 1.0 was capped to exactly -1.0.
C10_Witness ==
    /\ call.fn = "support_resistance" /\ call.done
    /\ call.raw < -100
    /\ call.out = -100

\* C11: on price/volume divergence the volume strength keeps its sign and
\* halves its magnitude (0.8 becomes +0.4), so a bullish signal never turns
\* bearish or the reverse; without divergence the strength is unchanged.
C11_DivergenceHalvesKeepingSign ==
    (call.fn = "volume_analysis" /\ call.done) =>
        IF call.divergence
        THEN /\ 2 * Abs(call.out) = 10 * Abs(call.score)
             /\ (call.score > 0) = (call.out > 0)
             /\ (call.score < 0) = (call.out < 0)
        ELSE call.out = 10 * call.score

C11_Witness ==
    /\ call.fn = "volume_analysis" /\ call.done
    /\ call.divergence /\ call.score = 80 /\ call.out = 400

CallRequests == SubSeq(requests, task.callAt + 1, Len(requests))

\* The task has made a fetchWithAuth call.
InCall == task.url # ""

\* A settled operation whose result is the result of its fetchWithAuth call.
SettledCall ==
    /\ InCall /\ Quiescent
    /\ task.op \in {"api", "addToWatchlist", "removeFromWatchlist"}

\* C14: in any fetchWithAuth call a refresh is attempted only after a first
\* response of status 401 with a token held; at most one refresh and one
\* retry happen; the retry is sent only after a successful refresh and
\* carries the refreshed token; a final response that is not OK rejects the
\* call with 'API Error: <status>'.
C14_OneRefreshOneRetry ==
    InCall =>
        LET reqs == CallRequests
            resp == task.responses
        IN /\ Len(reqs) >= 1 /\ Len(reqs) <= 3
           /\ reqs[1].url = task.url
           /\ Cardinality({k \in 1..Len(reqs) : reqs[k].url = "/api/auth/refresh"}) <= 1
           /\ Cardinality({k \in 1..Len(reqs) : reqs[k].url = task.url}) <= 2
           /\ Len(reqs) >= 2 =>
                 /\ reqs[2].url = "/api/auth/refresh"
                 /\ resp[1].kind = "response" /\ resp[1].status = 401
                 /\ reqs[1].auth # 0
           /\ Len(reqs) = 3 =>
                 /\ resp[2].kind = "token"
                 /\ reqs[3] = [reqs[1] EXCEPT !.auth = resp[2].token]
                 /\ task.pc = "fetch2" => accessToken = resp[2].token
           /\ SettledCall =>
                 LET final == IF Len(reqs) = 3 THEN resp[3] ELSE resp[1]
                 IN /\ final.kind = "response" /\ ~Ok(final.status) =>
                          task.result = Rejected("API Error", final.status)
                    /\ final.kind = "response" /\ Ok(final.status) =>
                          task.result = Resolved

\* A call whose retry, sent with the new token, is answered 401 again: it
\* rejects with 'API Error: 401' after three requests.
C14_Witness ==
    /\ SettledCall /\ task.op = "api"
    /\ Len(CallRequests) = 3
    /\ CallRequests[1].auth = 1 /\ CallRequests[3].auth = 2
    /\ task.responses[3].kind = "response" /\ task.responses[3].status = 401
    /\ task.result = Rejected("API Error", 401)

\* C15: in every quiescent state isAuthenticated (user != null) holds
\* exactly when the module-level access token is non-null.
C15_AuthenticatedIffToken ==
    Quiescent => ((user # "null") <=> (accessToken # 0))

HybridOps == {"getWatchlist", "addToWatchlist", "removeFromWatchlist"}

\* The last response of the fetchWithAuth call the task made last.
FinalResponse ==
    IF Len(CallRequests) = 3 THEN task.responses[3] ELSE task.responses[1]

\* What a hybrid operation does in the step that starts it.
HybridStart ==
    IF accessToken # 0
    THEN /\ ~Quiescent'
         /\ Len(requests') = 1
         /\ requests'[1].auth = accessToken
         /\ requests'[1].url =
               IF task'.op = "removeFromWatchlist"
               THEN "/api/watchlist/" \o task'.arg.ticker ELSE "/api/watchlist"
         /\ requests'[1].method =
               CASE task'.op = "getWatchlist"        -> "GET"
                 [] task'.op = "addToWatchlist"      -> "POST"
                 [] task'.op = "removeFromWatchlist" -> "DELETE"
         /\ storage' = storage /\ events' = 0
    ELSE /\ Quiescent' /\ requests' = <<>> /\ task'.result = Resolved
         /\ IF task'.op = "getWatchlist"
            THEN /\ task'.source = "local" /\ task'.list = getLocalWatchlist
                 /\ storage' = storage /\ events' = 0
            ELSE storage'.present /\ events' = 1

\* C16: getWatchlist, addToWatchlist and removeFromWatchlist use the server
\* exactly when a token is held: with a token, add and remove leave
\* localStorage unchanged and dispatch no 'watchlist-updated' event; without
\* one they send no request; getWatchlist with a token returns the local
\* list, and does not reject, when the server request fails.
C16_ServerIffToken ==
    [][ /\ (Quiescent /\ task' # task /\ task'.op \in HybridOps) => HybridStart
        /\ (~Quiescent /\ task.op \in HybridOps) =>
              /\ storage' = storage /\ events' = 0
              /\ \A k \in 1..Len(requests') : requests'[k].url # ""
        /\ (~Quiescent /\ task.op = "getWatchlist" /\ Quiescent') =>
              /\ task'.result = Resolved
              /\ task'.source = IF task'.settled[1].state = "resolved"
                                THEN "server" ELSE "local"
              /\ task'.source = "local" => task'.list = getLocalWatchlist
      ]_vars

\* getWatchlist with a token held, its request answered 500: it resolves
\* with the two items of the local list.
C16_Witness ==
    /\ task.op = "getWatchlist" /\ Quiescent
    /\ accessToken # 0
    /\ Len(requests) = 1 /\ FinalResponse.status = 500
    /\ task.result = Resolved /\ task.source = "local"
    /\ Len(task.list) = 2 /\ task.list = storage.items

\* No two entries of a list have the same ticker.
UniqueTickers(list) ==
    \A a, b \in 1..Len(list) : list[a].ticker = list[b].ticker => a = b

\* The entries of a list whose ticker is not t, in their order.
Others(list, t) == SelectSeq(list, LAMBDA w : w.ticker # t)

LocalAddOps == {"addToWatchlist", "syncAddToWatchlist"}

LocalRemoveOps == {"removeFromWatchlist", "syncRemoveFromWatchlist"}

\* C17: the localStorage watchlist never holds two items with one ticker;
\* addToWatchlist(item) puts the item (as JSON renders it) at index 0,
\* replacing an earlier entry with its ticker and keeping the others in
\* order; removeFromWatchlist(t) removes exactly the entries with ticker t,
\* keeps the others in order, and is idempotent.
C17_LocalListUniqueOrdered ==
    /\ [](UniqueTickers(getLocalWatchlist))
    /\ [][ /\ (Quiescent /\ Quiescent' /\ task' # task /\ task'.op \in LocalAddOps) =>
                 /\ storage'.present
                 /\ Head(storage'.items) = JsonRoundTrip(task'.arg)
                 /\ Head(storage'.items).ticker = task'.arg.ticker
                 /\ Tail(storage'.items) = Others(getLocalWatchlist, task'.arg.ticker)
           /\ (Quiescent /\ Quiescent' /\ task' # task /\ task'.op \in LocalRemoveOps) =>
                 /\ storage'.present
                 /\ storage'.items = Others(getLocalWatchlist, task'.arg.ticker)
                 /\ LocalRemove(storage'.items, task'.arg.ticker) = storage'.items
         ]_vars

\* MSFT added again to a list of three: it moved from the end to the front,
\* with the new payload, and the other two kept their order.
C17_Witness ==
    /\ task.op = "addToWatchlist" /\ Quiescent /\ requests = <<>>
    /\ task.arg = [ticker |-> "MSFT", note |-> "undefined"]
    /\ storage.items = <<[ticker |-> "MSFT"],
                         [ticker |-> "AAPL", note |-> "a"],
                         [ticker |-> "005930", note |-> "a"]>>

\* The task is running, or has run, migrateLocalToServer.
Migrating == task.phase = "migrate"

\* C18: migrateLocalToServer posts the local items one at a time in list
\* order; the local list is removed only after every item was posted
\* successfully; after a failed post nothing more is posted, localStorage
\* is unchanged and the function resolves; an empty list sends no request.
C18_MigrationAllOrNothing ==
    /\ [](Migrating =>
            /\ task.i >= 1 /\ task.i <= Len(task.items)
            /\ CallRequests[1] = Request("/api/watchlist", "POST",
                                         CallRequests[1].auth, task.items[task.i])
            /\ Len(task.settled) - (IF task.op = "setToken" THEN 1 ELSE 0)
                  = IF Quiescent THEN task.i ELSE task.i - 1
            /\ \A k \in 1..(Len(task.settled) - 1) : task.settled[k].state = "resolved"
            /\ Quiescent =>
                  /\ task.result = Resolved
                  /\ task.op = "setToken" => user = "user"
                  /\ task.i < Len(task.items) =>
                        task.settled[Len(task.settled)].state = "rejected")
    /\ [](task.op = "migrate" /\ ~Migrating => Quiescent /\ requests = <<>>)
    /\ [][ (Migrating' /\ task' # task) =>
              /\ IF Migrating /\ ~Quiescent
                 THEN task'.items = task.items /\ task'.i \in {task.i, task.i + 1}
                 ELSE task'.items = getLocalWatchlist /\ task'.i = 1
              /\ storage' =
                    IF Quiescent' /\ task'.settled[Len(task'.settled)].state = "resolved"
                    THEN EmptyStorage ELSE storage
         ]_vars

\* A migration of three items whose second post failed: one post succeeded,
\* the local list is still there.
C18_Witness ==
    /\ task.op = "migrate" /\ Migrating /\ Quiescent
    /\ Len(task.items) = 3 /\ task.i = 2
    /\ task.settled[1].state = "resolved" /\ task.settled[2].state = "rejected"
    /\ task.result = Resolved
    /\ storage = [present |-> TRUE, items |-> task.items]

\* The timer that socket id's close handler, or its failed construction,
\* schedules.
ReconnectTimerOf(id, socks) ==
    [id |-> id,
     delay |-> IF socks[id].interval = 0 THEN DefaultReconnectInterval
               ELSE socks[id].interval]

\* Socket id gets its close event in this step.
Closes(id) ==
    /\ id <= Len(sockets)
    /\ sockets[id].state # "closed" /\ sockets'[id].state = "closed"

\* A WebSocket constructor call throws in this step.
ConstructionFails ==
    /\ Len(sockets') = Len(sockets) + 1
    /\ sockets'[Len(sockets')].state = "failed"

\* The hook is mounted and its latest connection attempt, the id-th, is over.
ConnectionLost(id) ==
    /\ mounted /\ Len(sockets) = id
    /\ sockets[id].state \in {"closed", "failed"}

\* C19: while the hook is mounted every close of a socket sets isConnected
\* to false and schedules exactly one connect() after reconnectInterval ms
\* (5000 by default), a failing constructor schedules one the same way, and
\* a mounted hook whose connection is lost eventually attempts to connect
\* again.
C19_CloseSchedulesReconnect ==
    /\ [][ /\ \A id \in 1..MaxSockets :
                (mounted /\ mounted' /\ Closes(id)) =>
                    /\ isConnected' = FALSE
                    /\ ReconnectTimerOf(id, sockets) \notin timers
                    /\ timers' = timers \cup {ReconnectTimerOf(id, sockets)}
                    /\ reconnectTimer' = id
           /\ ConstructionFails =>
                 /\ timers' \ timers = {ReconnectTimerOf(Len(sockets'), sockets')}
                 /\ reconnectTimer' = Len(sockets')
         ]_vars
    /\ \A id \in 1..(MaxSockets - 1) :
          ConnectionLost(id) ~> (~mounted \/ Len(sockets) > id)

\* The first socket was opened and closed under default options, its timer
\* of 5000 ms fired, and the second socket is connecting.
C19_Witness ==
    /\ mounted /\ effects = 1 /\ reconnectInterval = 0
    /\ Len(sockets) = 2
    /\ sockets[1].state = "closed" /\ sockets[2].state = "connecting"
    /\ reconnectTimer = 1 /\ timers = {} /\ wsRef = 2
    /\ ~isConnected

\* Socket id was constructed by an effect whose cleanup has run.
TornDown(id) == ~mounted \/ sockets[id].gen # effects

\* C20: after the effect cleanup has run, the torn-down socket starts nothing
\* further: none of its reconnect timers is pending and no live socket was
\* constructed on its behalf, so at most one socket or pending reconnect is
\* alive per hook instance.
C20_NothingAfterCleanup ==
    /\ \A t \in timers : ~TornDown(t.id)
    /\ \A id \in 1..Len(sockets) : sockets[id].state \in Live => ~TornDown(id)
    /\ Cardinality({id \in 1..Len(sockets) : sockets[id].state \in Live})
          + Cardinality(timers) <= 1

\* C21: at every poll tick at which connected is true no status request is
\* issued, and at every tick at which connected is false one is issued.
C21_PollsIffNotConnected ==
    lastTick.ticked => (lastTick.issued <=> ~lastTick.connected)

\* C21 as the code has it: a poll tick issues a status request exactly when
\* the value of connected that the effect in force closed over is false; the
\* effect run after a render closes over the rendered value, so the two
\* differ only between a change of connected and the effects of that render;
\* a status request is issued by a tick only, and a payload that is handed
\* on replaces the whole pipeline state.
C21_PollsIffEffectNotConnected ==
    /\ [](lastTick.ticked => (lastTick.issued <=> ~lastTick.captured))
    /\ [][ /\ effectConnected' # effectConnected => effectConnected' = connected'
           /\ (effectConnected = connected /\ connected' = connected) =>
                 effectConnected' = connected'
           /\ inflight' > inflight =>
                 /\ inflight' = inflight + 1
                 /\ lastTick'.ticked /\ ~lastTick'.captured /\ lastTick'.issued
           /\ (inflight' < inflight /\ pipelineState' # pipelineState) =>
                 /\ pageMounted
                 /\ pipelineState' \in Payloads \ {KeepAlive}
         ]_vars

\* After the stream opened and the effects ran, a tick issued nothing; the
\* state is the payload of an earlier poll, which has no steps.
C21_Witness ==
    /\ lastTick = [ticked |-> TRUE, connected |-> TRUE, captured |-> TRUE,
                   issued |-> FALSE]
    /\ pageMounted /\ Len(sources) = 2 /\ inflight = 0
    /\ pipelineState = [status |-> "completed"]

\* C22: while the page is mounted exactly one EventSource is alive, and no
\* EventSource that has opened is closed by the page: a change of connected
\* closes nothing.
C22_OneSubscriptionKept ==
    pageMounted =>
        /\ Cardinality({id \in 1..Len(sources) : sources[id].state # "closed"}) = 1
        /\ \A id \in 1..Len(sources) :
              ~(sources[id].opened /\ sources[id].closedBy = "cleanup")

====
